---- MODULE Spec2Model ----
(***************************************************************************)
(* Cellars: the wine inventory REST handlers (server/routes.ts) over the   *)
(* two IStorage implementations (MemStorage, DatabaseStorage) and the      *)
(* wine catalog search.                                                    *)
(*                                                                         *)
(* A JSON object (a request body, a stored wine) is a function from field  *)
(* names to values; an absent field is a field outside its DOMAIN.  An     *)
(* optional value (T | undefined) is a sequence of length at most one.     *)
(* A string that is searched is a sequence of one-character strings.       *)
(***************************************************************************)
EXTENDS Integers, Sequences, FiniteSets, TLC

\* ------------------------------------------------------------------ bounds
\* Ids the wine stores may assign: at most MaxWines wines are ever created.
MaxWines == 2
\* Data rows of the catalog CSV file.
MaxRows == 2
\* Runs of loadWineCatalogFromCSV in one process.
MaxLoads == 2
\* Characters of a search query.
MaxQueryLen == 2
\* Bottles of one vintage the add form is taken to, above or below zero.
MaxBottles == 2

\* ------------------------------------------------------------------ values
Some(v) == <<v>>
None == <<>>
Opt(S) == {None} \cup {Some(v) : v \in S}
Given(S) == {Some(v) : v \in S}

\* The JSON object holding exactly the fields of o that are given.
Object(o) == [f \in {g \in DOMAIN o : o[g] # None} |-> o[f][1]]

EmptyMap == [k \in {} |-> k]
Put(m, k, v) == [x \in DOMAIN m \cup {k} |-> IF x = k THEN v ELSE m[x]]
Remove(m, k) == [x \in DOMAIN m \ {k} |-> m[x]]

\* { ...a, ...b }
Spread(a, b) == [f \in DOMAIN a \cup DOMAIN b |-> IF f \in DOMAIN b THEN b[f] ELSE a[f]]

\* The total of a vintageStocks list.
RECURSIVE SumStock(_)
SumStock(vs) == IF vs = <<>> THEN 0 ELSE Head(vs).stock + SumStock(Tail(vs))

\* getVintageApplicableCategories(): the categories whose stock is kept by vintage.
VintageTracked == {"Red", "White", "Rose"}

\* ------------------------------------------------------------------ inputs
Users == {"u1"}

\* WineCategory values the requests use: one vintage-tracked, one not.
Categories == {"Red", "Beer"}

StockLevels == {0, 1}

VintageStock(vintage, stock) == [vintage |-> vintage, stock |-> stock]

\* vintageStocks values the requests carry: none, one year, the same year twice.
VintageStocksInputs ==
    { <<>>,
      <<VintageStock(2020, 1)>>,
      <<VintageStock(2020, 1), VintageStock(2020, 1)>> }

\* PATCH bodies: every subset of category, stockLevel, vintageStocks.
PatchBodies ==
    { Object([category |-> c, stockLevel |-> s, vintageStocks |-> v]) :
        c \in Opt(Categories), s \in Opt(StockLevels), v \in Opt(VintageStocksInputs) }

\* PATCH bodies that carry an id key, which is no key of the insert schema.
IdPatchBodies == {[id |-> 2], [id |-> 2, stockLevel |-> 1]}

\* POST bodies of the add form (name, category, stockLevel, vintageStocks), with
\* or without a userId.
PostBodies ==
    { Object([userId |-> u, name |-> Some("Rioja"), category |-> c,
              stockLevel |-> s, vintageStocks |-> v]) :
        u \in Opt(Users), c \in Given(Categories), s \in Given(StockLevels),
        v \in Given(VintageStocksInputs) }

\* The users of the ownership requests.
Owners == {"u1", "u2"}

\* The eight values of WineCategory.
WineCategory == {"Red", "White", "Rose", "Fortified", "Beer", "Cider", "Whiskies", "Other"}

\* new Date().getFullYear()
CurrentYear == 2026

\* Values a JSON body may carry in the columns of a wine: a category outside
\* WineCategory, a negative stockLevel, a vintage after the current year, a
\* negative vintage stock.
AnyCategories == {"Red", "Plonk"}
AnyStockLevels == {1, -1}
AnyVintageStocks ==
    { <<>>,
      <<VintageStock(CurrentYear + 1, 1)>>,
      <<VintageStock(2020, -1)>> }

\* POST bodies with any such values.
AnyPostBodies ==
    { Object([userId |-> Some("u1"), name |-> Some("Rioja"), category |-> c,
              stockLevel |-> s, vintageStocks |-> v]) :
        c \in Given(AnyCategories), s \in Given(AnyStockLevels),
        v \in Given(AnyVintageStocks) }

\* PATCH bodies with any such values, and with a userId.
AnyPatchBodies ==
    { Object([userId |-> u, category |-> c, stockLevel |-> s, vintageStocks |-> v]) :
        u \in Opt({"u2"}), c \in Opt({"Plonk"}), s \in Opt({-1}),
        v \in Opt(AnyVintageStocks \ {<<>>}) }

\* The :id path parameter after parseInt: NaN, or an integer.
IdParam(n) == [nan |-> FALSE, n |-> n]
IdParams == {[nan |-> TRUE, n |-> 0]} \cup {IdParam(i) : i \in 1..MaxWines}

\* ------------------------------------------------------------------ state
VARIABLES
    storage,          \* which class the exported `storage` instance is
    wineStore,        \* MemStorage.wineStore: Map<number, Wine>
    wineCurrentId,    \* MemStorage.wineCurrentId
    winesTable,       \* the rows of table "wines", by primary key
    winesIdSeq,       \* the serial sequence of wines.id: its next value
    response,         \* the last HTTP response to a wine request
    issued,           \* history: the ids the creates have returned so far
    catalogStore,     \* MemStorage.catalogStore: Map<number, WineCatalog>
    catalogCurrentId, \* MemStorage.catalogCurrentId
    wineCatalogTable, \* the rows of table "wine_catalog", by primary key
    wineCatalogIdSeq, \* the serial sequence of wine_catalog.id: its next value
    csvFile,          \* server/data/winedb2.csv: absent, or its data rows
    loads,            \* calls of loadWineCatalogFromCSV so far
    loader,           \* the calls of loadWineCatalogFromCSV: each in progress, or its last run
    search,           \* the last catalog search: its query and its result
    form,             \* AddWine: the values of the form
    vintageApplicable, \* AddWine: the state isVintageApplicable
    vintageInput,     \* VintageManager: the state vintage
    stockInput,       \* VintageManager: the state stock
    onChange,         \* VintageManager: its last call of onChange
    submit,           \* AddWine: the last submit, and the data it posted
    returned          \* side by side: what the last call returned in each class

wineVars == <<wineStore, wineCurrentId, winesTable, winesIdSeq, response, issued>>
catalogVars == <<catalogStore, catalogCurrentId, wineCatalogTable, wineCatalogIdSeq,
                 csvFile, loads, loader, search>>
clientVars == <<form, vintageApplicable, vintageInput, stockInput, onChange, submit>>
vars == <<storage, wineVars, catalogVars, clientVars, returned>>

\* ------------------------------------------------------------------ schema
\* Columns of "wines" that insertWineSchema keeps and the model carries.
WineColumns == {"userId", "name", "category", "stockLevel", "vintageStocks"}
\* notNull columns without a default: required by the insert schema.
RequiredColumns == {"userId", "name", "category"}

\* insertWineSchema.safeParse(body).success
InsertWineSchemaOk(body) == RequiredColumns \subseteq DOMAIN body

\* insertWineSchema.partial().safeParse(body).success: nothing is required.
PartialWineSchemaOk(body) == TRUE

\* parseResult.data: the keys of the schema (unknown keys are stripped).
ParsedData(body) == [f \in DOMAIN body \cap WineColumns |-> body[f]]

\* ------------------------------------------------------------------ MemStorage
MemGetWineById(id) == IF id \in DOMAIN wineStore THEN Some(wineStore[id]) ELSE None

MemGetWines == {wineStore[id] : id \in DOMAIN wineStore}
MemGetWinesByCategory(category) == {wine \in MemGetWines : wine.category = category}

\* An addWine that numbers a record by the size of the store.
MemAddWineBySize(wine) ==
    LET id == Cardinality(DOMAIN wineStore) + 1
        newWine == Spread(wine, [id |-> id])
    IN  [threw |-> FALSE, value |-> Some(newWine), id |-> id,
         store |-> Put(wineStore, id, newWine), next |-> wineCurrentId + 1]

\* addWine: the result and the fields after the call.
MemAddWine(wine) ==
    LET id == wineCurrentId
        newWine == Spread(wine, [id |-> id])
    IN  [threw |-> FALSE, value |-> Some(newWine), id |-> id,
         store |-> Put(wineStore, id, newWine), next |-> wineCurrentId + 1]

MemUpdateWine(id, wine) ==
    IF id \notin DOMAIN wineStore
    THEN [threw |-> FALSE, value |-> None, store |-> wineStore]
    ELSE LET updatedWine == Spread(wineStore[id], wine)
         IN  [threw |-> FALSE, value |-> Some(updatedWine),
              store |-> Put(wineStore, id, updatedWine)]

\* Map.delete: true iff the key was present.
MemDeleteWine(id) ==
    [threw |-> FALSE, value |-> id \in DOMAIN wineStore, store |-> Remove(wineStore, id)]

\* ------------------------------------------------------------------ DatabaseStorage
\* Column defaults of "wines" applied by INSERT to the columns not given.
WineDefaults == [stockLevel |-> 0, vintageStocks |-> <<>>]

DbGetWineById(id) == IF id \in DOMAIN winesTable THEN Some(winesTable[id]) ELSE None

\* select * from wines
DbGetWines == {winesTable[id] : id \in DOMAIN winesTable}
\* select * from wines where category = $1
DbGetWinesByCategory(category) == {wine \in DbGetWines : wine.category = category}

\* Array.isArray(wine.vintageStocks) ? wine.vintageStocks : []
VintageStocksOrEmpty(wine) ==
    IF "vintageStocks" \in DOMAIN wine THEN wine["vintageStocks"] ELSE <<>>

DbAddWine(wine) ==
    LET id == winesIdSeq
        values == Spread(wine, [vintageStocks |-> VintageStocksOrEmpty(wine)])
        row == Spread(Spread(WineDefaults, values), [id |-> id])
    IN  [threw |-> FALSE, value |-> Some(row), id |-> id,
         store |-> Put(winesTable, id, row), next |-> winesIdSeq + 1]

\* db.update(wines).set(wine): an UPDATE with no column to set is an error,
\* raised before any row is looked at.
DbSetThrows(wine) == DOMAIN wine = {}

\* A store that recomputes stockLevel from vintageStocks on every update,
\* whatever the category.
DbUpdateWineRecomputing(id, wine) ==
    IF DbSetThrows(wine)
    THEN [threw |-> TRUE, value |-> None, store |-> winesTable]
    ELSE IF id \notin DOMAIN winesTable
    THEN [threw |-> FALSE, value |-> None, store |-> winesTable]
    ELSE LET set == Spread(winesTable[id], wine)
             row == IF set.vintageStocks = <<>> THEN set
                    ELSE Spread(set, [stockLevel |-> SumStock(set.vintageStocks)])
         IN  [threw |-> FALSE, value |-> Some(row), store |-> Put(winesTable, id, row)]

\* An UPDATE that lost its WHERE clause: every row is set.
DbUpdateWineEveryRow(id, wine) ==
    IF DbSetThrows(wine)
    THEN [threw |-> TRUE, value |-> None, store |-> winesTable]
    ELSE IF id \notin DOMAIN winesTable
    THEN [threw |-> FALSE, value |-> None, store |-> winesTable]
    ELSE [threw |-> FALSE, value |-> Some(Spread(winesTable[id], wine)),
          store |-> [k \in DOMAIN winesTable |-> Spread(winesTable[k], wine)]]

DbUpdateWine(id, wine) ==
    IF DbSetThrows(wine)
    THEN [threw |-> TRUE, value |-> None, store |-> winesTable]
    ELSE IF id \notin DOMAIN winesTable
    THEN [threw |-> FALSE, value |-> None, store |-> winesTable]
    ELSE LET row == Spread(winesTable[id], wine)
         IN  [threw |-> FALSE, value |-> Some(row), store |-> Put(winesTable, id, row)]

\* ToBoolean of a JavaScript value (the !! of deleteWine).
ToBoolean(v) ==
    CASE v.type = "undefined" -> FALSE
      [] v.type = "number" -> v.n # 0
      [] v.type = "object" -> TRUE

\* The awaited db.delete(wines).where(...) is the driver's result object,
\* which carries the number of rows deleted.
DbDeleteWine(id) ==
    LET rowCount == IF id \in DOMAIN winesTable THEN 1 ELSE 0
        result == [type |-> "object", rowCount |-> rowCount]
    IN  [threw |-> FALSE, value |-> ToBoolean(result), store |-> Remove(winesTable, id)]

\* ------------------------------------------------------------------ storage
IsMem == storage = "MemStorage"

\* The wines the exported storage holds.
Stored == IF IsMem THEN wineStore ELSE winesTable
NextId == IF IsMem THEN wineCurrentId ELSE winesIdSeq

\* The routes pass a userId as a further argument; neither class declares or
\* reads this parameter.
getWines(userId) == IF IsMem THEN MemGetWines ELSE DbGetWines
getWinesByCategory(category, userId) ==
    IF IsMem THEN MemGetWinesByCategory(category) ELSE DbGetWinesByCategory(category)
getWineById(id) == IF IsMem THEN MemGetWineById(id) ELSE DbGetWineById(id)
addWine(wine) == IF IsMem THEN MemAddWine(wine) ELSE DbAddWine(wine)
updateWine(id, wine) == IF IsMem THEN MemUpdateWine(id, wine) ELSE DbUpdateWine(id, wine)
deleteWine(id) == IF IsMem THEN MemDeleteWine(id) ELSE DbDeleteWine(id)

\* The storage's fields after a call that left `store` and `next`.
Commit(store, next) ==
    /\ UNCHANGED <<storage, catalogVars, clientVars, returned>>
    /\ IF IsMem
       THEN /\ wineStore' = store
            /\ wineCurrentId' = next
            /\ UNCHANGED <<winesTable, winesIdSeq>>
       ELSE /\ winesTable' = store
            /\ winesIdSeq' = next
            /\ UNCHANGED <<wineStore, wineCurrentId>>

Respond(op, id, status, body) ==
    response' = [op |-> op, id |-> id, status |-> status, body |-> body]

\* ------------------------------------------------------------------ side by side
\* The wines and patches given to the two classes: an InsertWine with and
\* without the optional stockLevel, a patch with and without a field.
SideWines ==
    { Object([userId |-> Some("u1"), name |-> Some("Rioja"), category |-> Some("Red"),
              stockLevel |-> s]) : s \in Opt({1}) }
SidePatches == {[f \in {} |-> f], [stockLevel |-> 0]}

\* What a call gives its caller: the value the promise resolves to, or a
\* rejection.
Outcome(r) == [threw |-> r.threw, value |-> r.value]

\* One call on a MemStorage and the same call on a DatabaseStorage.
Returned(method, mem, db) ==
    returned' = [method |-> method, mem |-> Outcome(mem), db |-> Outcome(db)]

BothAddWine(wine) ==
    LET mem == MemAddWine(wine)
        db == DbAddWine(wine)
    IN  /\ wineCurrentId <= MaxWines
        /\ winesIdSeq <= MaxWines
        /\ wineStore' = mem.store
        /\ wineCurrentId' = mem.next
        /\ winesTable' = db.store
        /\ winesIdSeq' = db.next
        /\ Returned("addWine", mem, db)
        /\ UNCHANGED <<storage, response, issued, catalogVars, clientVars>>

BothUpdateWine(id, wine) ==
    LET mem == MemUpdateWine(id, wine)
        db == DbUpdateWine(id, wine)
    IN  /\ wineStore' = mem.store
        /\ winesTable' = db.store
        /\ Returned("updateWine", mem, db)
        /\ UNCHANGED <<storage, wineCurrentId, winesIdSeq, response, issued,
                       catalogVars, clientVars>>

BothDeleteWine(id) ==
    LET mem == MemDeleteWine(id)
        db == DbDeleteWine(id)
    IN  /\ wineStore' = mem.store
        /\ winesTable' = db.store
        /\ Returned("deleteWine", mem, db)
        /\ UNCHANGED <<storage, wineCurrentId, winesIdSeq, response, issued,
                       catalogVars, clientVars>>

BothGetWineById(id) ==
    /\ Returned("getWineById",
                [threw |-> FALSE, value |-> MemGetWineById(id)],
                [threw |-> FALSE, value |-> DbGetWineById(id)])
    /\ UNCHANGED <<storage, wineStore, wineCurrentId, winesTable, winesIdSeq, response,
                   issued, catalogVars, clientVars>>

\* ------------------------------------------------------------------ handlers
\* POST /api/wines, past isAuthenticated: caller is the session user.
PostWine(caller, body) ==
    /\ NextId <= MaxWines
    /\ IF ~InsertWineSchemaOk(body)
       THEN /\ Respond("POST", 0, 400, None)
            /\ Commit(Stored, NextId)
            /\ UNCHANGED issued
       ELSE LET wineData == Spread(ParsedData(body), [userId |-> caller])
                r == addWine(wineData)
            IN  /\ Respond("POST", r.id, 201, r.value)
                /\ Commit(r.store, r.next)
                /\ issued' = issued \cup {r.id}

\* req.isAuthenticated() ? req.user.claims.sub : undefined, for a caller that
\* is a signed-in user or nobody.
UserIdOf(caller) == caller

\* GET /api/wines: the wines sent.
GetWinesOutcome(caller) == getWines(UserIdOf(caller))

GetWines(caller) ==
    /\ Respond("GET", 0, 200, Some(GetWinesOutcome(caller)))
    /\ Commit(Stored, NextId)
    /\ UNCHANGED issued

\* GET /api/wines/category/:category: the wines sent.
GetWinesByCategoryOutcome(category, caller) == getWinesByCategory(category, UserIdOf(caller))

GetWinesByCategory(category, caller) ==
    /\ Respond("GET", 0, 200, Some(GetWinesByCategoryOutcome(category, caller)))
    /\ Commit(Stored, NextId)
    /\ UNCHANGED issued

\* PATCH /api/wines/:id: the status and body sent, and the store it leaves.
PatchWineOutcome(param, body) ==
    IF param.nan
    THEN [id |-> 0, status |-> 400, body |-> None, store |-> Stored]
    ELSE IF ~PartialWineSchemaOk(body)
    THEN [id |-> param.n, status |-> 400, body |-> None, store |-> Stored]
    ELSE LET updatedWine == updateWine(param.n, ParsedData(body))
         IN  IF updatedWine.threw
             THEN [id |-> param.n, status |-> 500, body |-> None,
                   store |-> updatedWine.store]
             ELSE IF updatedWine.value = None
             THEN [id |-> param.n, status |-> 404, body |-> None,
                   store |-> updatedWine.store]
             ELSE [id |-> param.n, status |-> 200, body |-> updatedWine.value,
                   store |-> updatedWine.store]

PatchWine(param, body) ==
    LET sent == PatchWineOutcome(param, body)
    IN  /\ Respond("PATCH", sent.id, sent.status, sent.body)
        /\ Commit(sent.store, NextId)
        /\ UNCHANGED issued

\* DELETE /api/wines/:id
DeleteWine(param) ==
    /\ UNCHANGED issued
    /\ IF param.nan
       THEN /\ Respond("DELETE", 0, 400, None)
            /\ Commit(Stored, NextId)
       ELSE LET r == deleteWine(param.n)
            IN  /\ Commit(r.store, NextId)
                /\ IF ~r.value
                   THEN Respond("DELETE", param.n, 404, None)
                   ELSE Respond("DELETE", param.n, 204, None)

\* PATCH and DELETE as sent by a caller (a signed-in user, or nobody): the two
\* routes are registered without isAuthenticated and never read req.user.
PatchWineBy(caller, param, body) == PatchWine(param, body)
DeleteWineBy(caller, param) == DeleteWine(param)

\* ------------------------------------------------------------------ client totals
\* wine.stockLevel || 0
StockLevelOrZero(wine) == IF "stockLevel" \in DOMAIN wine THEN wine.stockLevel ELSE 0

\* WineDetail: isVintageApplicable(category)
IsVintageApplicable(category) == category \in VintageTracked

\* WineDetail useEffect: the total stock shown for a wine.
TotalStock(wine) ==
    LET stocks == VintageStocksOrEmpty(wine)
    IN  IF IsVintageApplicable(wine.category) /\ Len(stocks) > 0
        THEN SumStock(stocks)
        ELSE StockLevelOrZero(wine)

\* WineInventory bottlesPerCategory: what one wine adds to the count.
BottlesOfWine(wine) ==
    IF "vintageStocks" \in DOMAIN wine /\ Len(wine.vintageStocks) > 0
    THEN SumStock(wine.vintageStocks)
    ELSE StockLevelOrZero(wine)

\* categoryWines.reduce((total, wine) => total + amount, 0) over the wines
\* fetched, given by id; amounts[id] is what the callback adds for wine id.
RECURSIVE ReduceWines(_, _)
ReduceWines(amounts, ids) ==
    IF ids = {} THEN 0
    ELSE LET id == CHOOSE i \in ids : TRUE
         IN  amounts[id] + ReduceWines(amounts, ids \ {id})

\* WineInventory: winesByCategory[category]
WinesByCategory(wines, category) == {id \in DOMAIN wines : wines[id].category = category}

\* WineInventory: bottlesPerCategory[category]
BottlesPerCategory(wines, category) ==
    ReduceWines([id \in DOMAIN wines |-> BottlesOfWine(wines[id])],
                WinesByCategory(wines, category))

\* ------------------------------------------------------------------ AddWine and VintageManager
\* The text of a number field: an integer, or nothing that parseInt reads.
\* parseInt(e.target.value) || fallback
ParseIntOr(text, fallback) == IF text = None \/ text[1] = 0 THEN fallback ELSE text[1]

\* What the user types into the Vintage Year, the Bottles and the per-vintage
\* fields, and into Number of Bottles.
YearTexts == Opt({2020, CurrentYear + 1})
BottleTexts == Opt({-1, 0, MaxBottles})
FormCategories == {"Red", "Beer"}

\* The stocks of a list stay in the range the model follows.
InRange(vintageStocks) ==
    \A i \in DOMAIN vintageStocks :
        vintageStocks[i].stock \in (0 - MaxBottles)..MaxBottles

\* vintageStocks.some(vs => vs.vintage === vintage)
Exists(vintageStocks, vintage) ==
    \E i \in DOMAIN vintageStocks : vintageStocks[i].vintage = vintage

\* A handleAddVintage that appends in both cases.
HandleAddVintageAppending(vintageStocks, vintage, stock) ==
    vintageStocks \o <<VintageStock(vintage, stock)>>

\* handleAddVintage: the list passed to onChange.
HandleAddVintageList(vintageStocks, vintage, stock) ==
    IF Exists(vintageStocks, vintage)
    THEN [i \in DOMAIN vintageStocks |->
            IF vintageStocks[i].vintage = vintage
            THEN VintageStock(vintageStocks[i].vintage, vintageStocks[i].stock + stock)
            ELSE vintageStocks[i]]
    ELSE vintageStocks \o <<VintageStock(vintage, stock)>>

\* handleRemoveVintage: the list passed to onChange.
HandleRemoveVintageList(vintageStocks, vintageToRemove) ==
    LET Keep(vs) == vs.vintage # vintageToRemove
    IN  SelectSeq(vintageStocks, Keep)

\* handleStockChange: the list passed to onChange.
HandleStockChangeList(vintageStocks, vintage, newStock) ==
    IF newStock <= 0
    THEN HandleRemoveVintageList(vintageStocks, vintage)
    ELSE [i \in DOMAIN vintageStocks |->
            IF vintageStocks[i].vintage = vintage
            THEN VintageStock(vintageStocks[i].vintage, newStock)
            ELSE vintageStocks[i]]

\* AddWine.handleVintageStocksChange, the onChange of the VintageManager: the
\* form after it.
HandleVintageStocksChange(vintageStocks) ==
    LET currentYear == CurrentYear
        Valid(v) == v.vintage <= currentYear
        validVintages == SelectSeq(vintageStocks, Valid)
        totalStock == SumStock(validVintages)
    IN  [form EXCEPT !.vintageStocks = validVintages, !.stockLevel = totalStock]

\* The category select of the form, and the effect on watchCategory.  The
\* VintageManager is rendered only while isVintageApplicable: when it is
\* mounted its states are the initial ones.
SetCategory(category) ==
    LET applicable == category \in VintageTracked
    IN  /\ form' = [form EXCEPT !.category = category]
        /\ vintageApplicable' = applicable
        /\ IF applicable /\ ~vintageApplicable
           THEN vintageInput' = CurrentYear /\ stockInput' = 1
           ELSE UNCHANGED <<vintageInput, stockInput>>
        /\ UNCHANGED <<onChange, submit, storage, wineVars, catalogVars, returned>>

\* The Vintage Year field of the VintageManager.
SetVintage(text) ==
    /\ vintageApplicable
    /\ vintageInput' = ParseIntOr(text, CurrentYear)
    /\ UNCHANGED <<form, vintageApplicable, stockInput, onChange, submit,
                   storage, wineVars, catalogVars, returned>>

\* The Bottles field of the VintageManager.
SetStock(text) ==
    /\ vintageApplicable
    /\ stockInput' = ParseIntOr(text, 1)
    /\ UNCHANGED <<form, vintageApplicable, vintageInput, onChange, submit,
                   storage, wineVars, catalogVars, returned>>

\* The Add Vintage button.
HandleAddVintage ==
    LET vintageStocks == form.vintageStocks
        updated == HandleAddVintageList(vintageStocks, vintageInput, stockInput)
    IN  /\ vintageApplicable
        /\ InRange(updated)
        /\ onChange' = [handler |-> "handleAddVintage",
                        exists |-> Exists(vintageStocks, vintageInput),
                        vintageStocks |-> updated]
        /\ form' = HandleVintageStocksChange(updated)
        /\ stockInput' = 1
        /\ UNCHANGED <<vintageApplicable, vintageInput, submit, storage, wineVars,
                       catalogVars, returned>>

\* The minus and plus buttons and the stock field of one listed vintage.
HandleStockChange(vintage, newStock) ==
    LET vintageStocks == form.vintageStocks
        updated == HandleStockChangeList(vintageStocks, vintage, newStock)
    IN  /\ vintageApplicable
        /\ Exists(vintageStocks, vintage)
        /\ InRange(updated)
        /\ onChange' = [handler |-> "handleStockChange", exists |-> TRUE,
                        vintageStocks |-> updated]
        /\ form' = HandleVintageStocksChange(updated)
        /\ UNCHANGED <<vintageApplicable, vintageInput, stockInput, submit, storage,
                       wineVars, catalogVars, returned>>

\* The stocks handleStockChange is called with for a listed vintage.
NewStocks(vs) == {vs.stock - 1, vs.stock + 1} \cup {ParseIntOr(text, 0) : text \in BottleTexts}

\* The Number of Bottles field of WineFormFields.
SetStockLevel(text) ==
    /\ form' = [form EXCEPT !.stockLevel = ParseIntOr(text, 0)]
    /\ UNCHANGED <<vintageApplicable, vintageInput, stockInput, onChange, submit,
                   storage, wineVars, catalogVars, returned>>

\* wineFormSchema, the resolver of the form: the keys of insertWineSchema,
\* with the form's constraints on name, category, stockLevel and vintageStocks.
WineFormSchemaOk(values) ==
    /\ RequiredColumns \subseteq DOMAIN values
    /\ values.category \in WineCategory \ {"Whiskies"}
    /\ values.stockLevel >= 0
    /\ \A i \in DOMAIN values.vintageStocks :
          /\ values.vintageStocks[i].vintage >= 1900
          /\ values.vintageStocks[i].vintage <= CurrentYear
          /\ values.vintageStocks[i].stock >= 0

\* AddWine.onSubmit: the data posted to /api/wines.
OnSubmit(data, isVintageApplicable) ==
    IF isVintageApplicable /\ data.stockLevel > 0 /\ Len(data.vintageStocks) = 0
    THEN [data EXCEPT !.vintageStocks = <<VintageStock(CurrentYear, data.stockLevel)>>]
    ELSE data

\* The Add Wine button: form.handleSubmit(onSubmit) calls onSubmit with the
\* values only if the resolver accepts them.
Submit ==
    /\ submit' = IF WineFormSchemaOk(form)
                 THEN [valid |-> TRUE, posted |-> Some(OnSubmit(form, vintageApplicable))]
                 ELSE [valid |-> FALSE, posted |-> None]
    /\ UNCHANGED <<form, vintageApplicable, vintageInput, stockInput, onChange,
                   storage, wineVars, catalogVars, returned>>

\* ------------------------------------------------------------------ strings
\* Characters of the names, producers and queries.
Alphabet == {"a", "A", "b", "_", "%"}

\* String.prototype.toLowerCase / SQL lower(), one character.
LowerChar(c) == CASE c = "A" -> "a" [] c = "B" -> "b" [] OTHER -> c
ToLowerCase(s) == [i \in 1..Len(s) |-> LowerChar(s[i])]

\* String.prototype.includes
Includes(s, q) == \E i \in 0..(Len(s) - Len(q)) : SubSeq(s, i + 1, i + Len(q)) = q

\* SQL: s LIKE p, where % matches any string and _ any one character.
RECURSIVE Like(_, _)
Like(s, p) ==
    IF p = <<>> THEN s = <<>>
    ELSE IF Head(p) = "%" THEN Like(s, Tail(p)) \/ (s # <<>> /\ Like(Tail(s), p))
    ELSE IF s = <<>> THEN FALSE
    ELSE (Head(p) = "_" \/ Head(p) = Head(s)) /\ Like(Tail(s), Tail(p))

StringsUpTo(n) == UNION {[1..k -> Alphabet] : k \in 0..n}

\* ------------------------------------------------------------------ catalog source
\* Rows of the CSV file as csv-parse yields them (columns: true, trim: true):
\* a missing value is the empty string.
CsvRows ==
    { [name |-> <<"A", "b">>, category |-> "Red", producer |-> <<>>],
      [name |-> <<"b">>, category |-> "", producer |-> <<"a", "A">>],
      [name |-> <<>>, category |-> "Beer", producer |-> <<"A">>] }

\* The file: whether fs.existsSync(filePath), and its data rows.
CsvFile(rows) == [exists |-> TRUE, rows |-> rows]
CsvFiles == {CsvFile(rows) : rows \in UNION {[1..k -> CsvRows] : k \in 0..MaxRows}}
Missing == [exists |-> FALSE, rows |-> <<>>]
\* fs.writeFileSync(filePath, 'name,category,producer,region,country\n')
HeaderOnly == CsvFile(<<>>)

\* ------------------------------------------------------------------ MemStorage catalog
MemGetWineCatalog == {catalogStore[id] : id \in DOMAIN catalogStore}

MemSearchWineCatalog(query) ==
    LET lowerQuery == ToLowerCase(query)
    IN  { wine \in MemGetWineCatalog :
            \/ Includes(ToLowerCase(wine.name), lowerQuery)
            \/ (wine.producer # <<>> /\ Includes(ToLowerCase(wine.producer), lowerQuery)) }

MemWineEntry(id, record) ==
    [id |-> id,
     name |-> record.name,
     category |-> IF record.category = "" THEN "Other" ELSE record.category,
     producer |-> record.producer]

\* this.catalogStore.set(id, wineEntry) for each of `records`, under the ids
\* this.catalogCurrentId++ yields.
MemSetEntries(records) ==
    LET ids == {catalogCurrentId + i - 1 : i \in 1..Len(records)}
    IN  [id \in DOMAIN catalogStore \cup ids |->
            IF id \in ids
            THEN MemWineEntry(id, records[id - catalogCurrentId + 1])
            ELSE catalogStore[id]]

\* ------------------------------------------------------------------ DatabaseStorage catalog
NULL == None

DbGetWineCatalog == {wineCatalogTable[id] : id \in DOMAIN wineCatalogTable}

\* lower(column) like pattern: NULL (not true) on a NULL column.
LowerLike(column, pattern) == column # NULL /\ Like(ToLowerCase(column[1]), pattern)

DbSearchWineCatalog(query) ==
    LET lowerQuery == ToLowerCase(query)
        pattern == <<"%">> \o lowerQuery \o <<"%">>
    IN  { wine \in DbGetWineCatalog :
            \/ LowerLike(Some(wine.name), pattern)
            \/ LowerLike(wine.producer, pattern) }

DbWineEntry(id, record) ==
    [id |-> id,
     name |-> record.name,
     category |-> IF record.category = "" THEN "Other" ELSE record.category,
     producer |-> IF record.producer = <<>> THEN NULL ELSE Some(record.producer)]

\* db.insert(wineCatalog).values(wines): one row per element, under the next
\* values of the serial id.
DbInsertValues(wines) ==
    LET ids == {wineCatalogIdSeq + i - 1 : i \in 1..Len(wines)}
    IN  [id \in ids |-> DbWineEntry(id, wines[id - wineCatalogIdSeq + 1])]

\* ------------------------------------------------------------------ catalog operations
getWineCatalog == IF IsMem THEN MemGetWineCatalog ELSE DbGetWineCatalog
searchWineCatalog(query) ==
    IF IsMem THEN MemSearchWineCatalog(query) ELSE DbSearchWineCatalog(query)

\* ------------------------------------------------------------------ loadWineCatalogFromCSV
\* The calls that may be in progress at once, and the one call of a process
\* that loads only from its constructor.
Calls == {1, 2}
OneCall == {1}

\* The promise and the parser of one call.  pc is where the call is: "idle"
\* (not in progress), "reading" (the file is piped into the parser),
\* "inserting" (DatabaseStorage, between the two statements of the 'end'
\* handler).  source is what the stream reads, rest the records not yet
\* handed to the 'readable' handler, wines the array of DatabaseStorage.
\* outcome is how the promise settled.  History of the call: before is the
\* catalog when it started, wrote whether it wrote the header file, second
\* whether the file was the header file the previous call had just written,
\* overlap whether it started while another call was in progress; created is
\* whether the file is still the header file of the last call.
NoLoad ==
    [pc |-> "idle", source |-> <<>>, rest |-> <<>>, wines |-> <<>>, outcome |-> "none",
     before |-> {}, wrote |-> FALSE, second |-> FALSE, overlap |-> FALSE,
     created |-> FALSE]

Settle(call, outcome) == [loader EXCEPT ![call].pc = "idle", ![call].outcome = outcome]

\* The call, up to the return of the promise executor.  The file is created
\* if missing; MemStorage then reads it, DatabaseStorage resolves at once.
LoadWineCatalogFromCSV(call) ==
    /\ loads < MaxLoads
    /\ loader[call].pc = "idle"
    /\ loads' = loads + 1
    /\ LET missing == ~csvFile.exists
           file == IF missing THEN HeaderOnly ELSE csvFile
           started ==
               [NoLoad EXCEPT !.before = getWineCatalog, !.wrote = missing,
                              !.second = loader[call].created, !.created = missing,
                              !.overlap = \E other \in Calls \ {call} :
                                              loader[other].pc # "idle"]
       IN  /\ csvFile' = file
           /\ IF missing /\ ~IsMem
              THEN loader' = [loader EXCEPT ![call] = [started EXCEPT !.outcome = "resolved"]]
              ELSE loader' = [loader EXCEPT ![call] =
                                [started EXCEPT !.pc = "reading", !.source = file.rows,
                                                !.rest = file.rows]]
    /\ UNCHANGED <<storage, wineVars, clientVars, returned, search, catalogStore, catalogCurrentId,
                   wineCatalogTable, wineCatalogIdSeq>>

\* parser.on('readable'): the handler reads the k records the parser holds.
Readable(call, k) ==
    /\ loader[call].pc = "reading"
    /\ k \in 1..Len(loader[call].rest)
    /\ LET records == SubSeq(loader[call].rest, 1, k)
           rest == SubSeq(loader[call].rest, k + 1, Len(loader[call].rest))
       IN  IF IsMem
           THEN /\ catalogStore' = MemSetEntries(records)
                /\ catalogCurrentId' = catalogCurrentId + k
                /\ loader' = [loader EXCEPT ![call].rest = rest]
                /\ UNCHANGED <<wineCatalogTable, wineCatalogIdSeq>>
           ELSE /\ loader' = [loader EXCEPT ![call].rest = rest,
                                            ![call].wines = loader[call].wines \o records]
                /\ UNCHANGED <<catalogStore, catalogCurrentId, wineCatalogTable,
                               wineCatalogIdSeq>>
    /\ UNCHANGED <<storage, wineVars, clientVars, returned, search, csvFile, loads>>

\* parser.on('error'): the parser fails on the input at any point of the
\* stream; no 'end' follows.
ParserError(call) ==
    /\ loader[call].pc = "reading"
    /\ loader' = Settle(call, "rejected")
    /\ UNCHANGED <<storage, wineVars, clientVars, returned, search, csvFile, loads, catalogStore,
                   catalogCurrentId, wineCatalogTable, wineCatalogIdSeq>>

\* parser.on('end'), up to its first await.  MemStorage resolves;
\* DatabaseStorage deletes every row and, with no record read, resolves.
End(call) ==
    /\ loader[call].pc = "reading"
    /\ loader[call].rest = <<>>
    /\ IF IsMem
       THEN /\ loader' = Settle(call, "resolved")
            /\ UNCHANGED wineCatalogTable
       ELSE /\ wineCatalogTable' = EmptyMap
            /\ loader' = IF Len(loader[call].wines) > 0
                         THEN [loader EXCEPT ![call].pc = "inserting"]
                         ELSE Settle(call, "resolved")
    /\ UNCHANGED <<storage, wineVars, clientVars, returned, search, csvFile, loads, catalogStore,
                   catalogCurrentId, wineCatalogIdSeq>>

\* db.insert(wineCatalog).values(wines) into the table as it is: the rows get
\* the next values of the serial id and are added to the rows held.
DbInsertInto(table, wines) ==
    LET inserted == DbInsertValues(wines)
    IN  [id \in DOMAIN table \cup DOMAIN inserted |->
            IF id \in DOMAIN inserted THEN inserted[id] ELSE table[id]]

\* The rest of the 'end' handler of DatabaseStorage: the bulk insert.
Insert(call) ==
    /\ loader[call].pc = "inserting"
    /\ wineCatalogTable' = DbInsertInto(wineCatalogTable, loader[call].wines)
    /\ wineCatalogIdSeq' = wineCatalogIdSeq + Len(loader[call].wines)
    /\ loader' = Settle(call, "resolved")
    /\ UNCHANGED <<storage, wineVars, clientVars, returned, search, csvFile, loads, catalogStore,
                   catalogCurrentId>>

\* The bulk insert fails (the statement is rejected by the database): the
\* catch of the 'end' handler rejects.  The delete has been executed.
InsertFails(call) ==
    /\ loader[call].pc = "inserting"
    /\ loader' = Settle(call, "rejected")
    /\ UNCHANGED <<storage, wineVars, clientVars, returned, search, csvFile, loads, catalogStore,
                   catalogCurrentId, wineCatalogTable, wineCatalogIdSeq>>

\* The operator replaces or removes server/data/winedb2.csv between two calls.
WriteCsvFile(file) ==
    /\ \A call \in Calls : loader[call].pc = "idle"
    /\ file # csvFile
    /\ csvFile' = file
    /\ loader' = [call \in Calls |-> [loader[call] EXCEPT !.created = FALSE]]
    /\ UNCHANGED <<storage, wineVars, clientVars, returned, search, loads, catalogStore,
                   catalogCurrentId, wineCatalogTable, wineCatalogIdSeq>>

\* The q parameters of the search requests: none, or a string.
QueryParams == Opt(StringsUpTo(MaxQueryLen))

\* GET /api/catalog/search?q=...: the query searched (req.query.q as string
\* || "") and what is sent.
SearchCatalogOutcome(q) ==
    LET query == IF q = None THEN <<>> ELSE q[1]
        results == searchWineCatalog(query)
    IN  [q |-> query, status |-> 200, results |-> results]

SearchCatalog(q) ==
    /\ search' = SearchCatalogOutcome(q)
    /\ UNCHANGED <<storage, wineVars, clientVars, returned, catalogStore, catalogCurrentId,
                   wineCatalogTable, wineCatalogIdSeq, csvFile, loads, loader>>

\* ------------------------------------------------------------------ specification
InitWines ==
    /\ wineStore = EmptyMap
    /\ wineCurrentId = 1
    /\ winesTable = EmptyMap
    /\ winesIdSeq = 1
    /\ response = [op |-> "none", id |-> 0, status |-> 0, body |-> None]
    /\ issued = {}

InitCatalog ==
    /\ catalogStore = EmptyMap
    /\ catalogCurrentId = 1
    /\ wineCatalogTable = EmptyMap
    /\ wineCatalogIdSeq = 1
    /\ loads = 0
    /\ loader = [call \in Calls |-> NoLoad]
    /\ search = [q |-> <<>>, status |-> 0, results |-> {}]

\* AddWine as mounted: the default values of the form (the category is Red),
\* and the VintageManager the effect on the category has made visible.
InitClient ==
    /\ form = [name |-> "Rioja", category |-> "Red", stockLevel |-> 0, vintageStocks |-> <<>>]
    /\ vintageApplicable = TRUE
    /\ vintageInput = CurrentYear
    /\ stockInput = 1
    /\ onChange = [handler |-> "none", exists |-> FALSE, vintageStocks |-> <<>>]
    /\ submit = [valid |-> TRUE, posted |-> None]
    /\ returned = [method |-> "none", mem |-> [threw |-> FALSE, value |-> None],
                   db |-> [threw |-> FALSE, value |-> None]]

\* After construction: the stores are empty, the ids start at 1, nothing has
\* been answered yet.  The wine requests, with no catalog file.
Init ==
    /\ storage \in {"MemStorage", "DatabaseStorage"}
    /\ InitWines
    /\ InitCatalog
    /\ InitClient
    /\ csvFile = Missing

Next ==
    \/ \E caller \in Users, body \in PostBodies : PostWine(caller, body)
    \/ \E param \in IdParams, body \in PatchBodies \cup IdPatchBodies :
          PatchWine(param, body)
    \/ \E param \in IdParams : DeleteWine(param)

Spec == Init /\ [][Next]_vars

\* The wine requests with any body the clients of the API can send, by two
\* users, and the listings.
NextRequests ==
    \/ \E caller \in Owners, body \in AnyPostBodies : PostWine(caller, body)
    \/ \E caller \in Opt(Owners), param \in IdParams, body \in AnyPatchBodies :
          PatchWineBy(caller, param, body)
    \/ \E caller \in Opt(Owners), param \in IdParams : DeleteWineBy(caller, param)
    \/ \E caller \in Opt(Owners) : GetWines(caller)
    \/ \E category \in AnyCategories, caller \in Opt(Owners) :
          GetWinesByCategory(category, caller)

SpecRequests == Init /\ [][NextRequests]_vars

\* The add page: the user's edits of the form and of the VintageManager, and
\* the submits.
NextAddWine ==
    \/ \E category \in FormCategories : SetCategory(category)
    \/ \E text \in YearTexts : SetVintage(text)
    \/ \E text \in BottleTexts : SetStock(text)
    \/ HandleAddVintage
    \/ \E i \in DOMAIN form.vintageStocks :
          \E newStock \in NewStocks(form.vintageStocks[i]) :
             HandleStockChange(form.vintageStocks[i].vintage, newStock)
    \/ \E text \in BottleTexts : SetStockLevel(text)
    \/ Submit

SpecAddWine == Init /\ [][NextAddWine]_vars

\* The same calls made on an instance of each class.
NextSideBySide ==
    \/ \E wine \in SideWines : BothAddWine(wine)
    \/ \E id \in 1..MaxWines, wine \in SidePatches : BothUpdateWine(id, wine)
    \/ \E id \in 1..MaxWines : BothDeleteWine(id)
    \/ \E id \in 1..MaxWines : BothGetWineById(id)

SpecSideBySide == Init /\ [][NextSideBySide]_vars

\* The catalog: the file the operator left in server/data, the loads, the searches.
InitSearch ==
    /\ storage \in {"MemStorage", "DatabaseStorage"}
    /\ InitWines
    /\ InitCatalog
    /\ InitClient
    /\ csvFile \in CsvFiles \cup {Missing}

NextCatalog ==
    \/ \E call \in OneCall : LoadWineCatalogFromCSV(call)
    \/ \E call \in OneCall, k \in 1..MaxRows : Readable(call, k)
    \/ \E call \in OneCall : End(call)
    \/ \E call \in OneCall : Insert(call)
    \/ \E q \in QueryParams : SearchCatalog(q)

SpecCatalog == InitSearch /\ [][NextCatalog]_vars

\* The catalog under its loads: the calls of loadWineCatalogFromCSV step by
\* step, their failures, the operator's changes of the file, and the readers
\* that list the catalog (a search with no q) between any two steps.
NextRefresh ==
    \/ \E call \in OneCall : LoadWineCatalogFromCSV(call)
    \/ \E call \in OneCall, k \in 1..MaxRows : Readable(call, k)
    \/ \E call \in OneCall : ParserError(call)
    \/ \E call \in OneCall : End(call)
    \/ \E call \in OneCall : Insert(call)
    \/ \E call \in OneCall : InsertFails(call)
    \/ \E file \in CsvFiles \cup {Missing} : WriteCsvFile(file)
    \/ SearchCatalog(None)

SpecRefresh == InitSearch /\ [][NextRefresh]_vars

\* The calls of loadWineCatalogFromCSV that run at once (the constructor's and
\* another), interleaved at their events and awaits.
NextConcurrentRefresh ==
    \/ \E call \in Calls : LoadWineCatalogFromCSV(call)
    \/ \E call \in Calls, k \in 1..MaxRows : Readable(call, k)
    \/ \E call \in Calls : End(call)
    \/ \E call \in Calls : Insert(call)

SpecConcurrentRefresh == InitSearch /\ [][NextConcurrentRefresh]_vars

\* ------------------------------------------------------------------ claims
EmptyBody == [f \in {} |-> f]
HasStock(R) == "stockLevel" \in DOMAIN R
HasVintages(R) == "vintageStocks" \in DOMAIN R /\ R.vintageStocks # <<>>
Tracked(R) == R.category \in VintageTracked
\* The wine a PATCH or DELETE response is about.
Target == response'.id

\* C1: every stored record of a vintage-tracked category with a non-empty
\* vintageStocks has stockLevel equal to the sum of its vintage stocks, after
\* any create or update.
C1_StockReconciled ==
    \A id \in DOMAIN Stored :
        LET R == Stored[id]
        IN  (Tracked(R) /\ HasVintages(R)) =>
                (HasStock(R) /\ R.stockLevel = SumStock(R.vintageStocks))

\* C2: no stored record holds two vintageStocks entries for the same year.
C2_YearsUnique ==
    \A id \in DOMAIN Stored :
        LET vs == IF HasVintages(Stored[id]) THEN Stored[id].vintageStocks ELSE <<>>
        IN  \A i, j \in DOMAIN vs : i # j => vs[i].vintage # vs[j].vintage

\* C3: PATCH {stockLevel: n} on a record of a category that is not
\* vintage-tracked succeeds, stores stockLevel n and leaves vintageStocks as
\* it was, whatever vintageStocks holds.
C3_DirectStockLevel ==
    [][ \A n \in StockLevels :
          ( /\ response'.op = "PATCH"
            /\ Target \in DOMAIN Stored
            /\ ~Tracked(Stored[Target])
            /\ PatchWine(IdParam(Target), [stockLevel |-> n]) )
          => ( /\ response'.status = 200
               /\ Target \in DOMAIN Stored'
               /\ Stored'[Target].stockLevel = n
               /\ Stored'[Target].vintageStocks = Stored[Target].vintageStocks )
      ]_vars

\* C3 witness: a PATCH answered 200 for a record outside the vintage-tracked
\* set whose stockLevel differs from the total of its non-empty vintageStocks.
C3_Witness ==
    /\ response.op = "PATCH"
    /\ response.status = 200
    /\ response.id \in DOMAIN Stored
    /\ ~Tracked(Stored[response.id])
    /\ HasVintages(Stored[response.id])
    /\ Stored[response.id].stockLevel # SumStock(Stored[response.id].vintageStocks)

\* C4: PATCH {category: c} that moves a record with non-empty vintageStocks
\* from a category outside the vintage-tracked set into a tracked one leaves
\* stockLevel equal to the sum of the record's vintageStocks.
C4_CategoryChangeReconciles ==
    [][ \A c \in Categories \cap VintageTracked :
          ( /\ response'.op = "PATCH"
            /\ Target \in DOMAIN Stored
            /\ ~Tracked(Stored[Target])
            /\ HasVintages(Stored[Target])
            /\ PatchWine(IdParam(Target), [category |-> c]) )
          => ( /\ Target \in DOMAIN Stored'
               /\ Stored'[Target].stockLevel = SumStock(Stored'[Target].vintageStocks) )
      ]_vars

\* C5: DELETE of an existing id answers success (deleteWine true) and a get of
\* the id then finds nothing; DELETE of an id not in the store answers
\* not-found (deleteWine false) and leaves the store unchanged.
C5_DeleteReportsExistence ==
    [][ \A id \in 1..MaxWines :
          ( /\ response'.op = "DELETE"
            /\ DeleteWine(IdParam(id)) )
          => IF id \in DOMAIN Stored
             THEN response'.status = 204 /\ getWineById(id)' = None
             ELSE response'.status = 404 /\ Stored' = Stored
      ]_vars

\* C6: PATCH {} on an existing record succeeds, returns the record and leaves
\* the stored record, and the store, as they were.
C6_EmptyPatch ==
    [][ ( /\ response'.op = "PATCH"
          /\ Target \in DOMAIN Stored
          /\ PatchWine(IdParam(Target), EmptyBody) )
        => ( /\ response'.status = 200
             /\ response'.body = Some(Stored[Target])
             /\ Stored' = Stored )
      ]_vars

\* C7: PATCH of an existing record with any body: every field of the body has
\* the body's value in the stored record, every other field is as it was
\* (absent if it was absent), and every other record is as it was.
C7_PatchSemantics ==
    \A id \in DOMAIN Stored, body \in PatchBodies :
        LET after == PatchWineOutcome(IdParam(id), body).store
        IN  /\ DOMAIN after = DOMAIN Stored
            /\ \A f \in DOMAIN body : f \in DOMAIN after[id] /\ after[id][f] = body[f]
            /\ \A f \in WineColumns \ DOMAIN body :
                 /\ f \in DOMAIN after[id] <=> f \in DOMAIN Stored[id]
                 /\ f \in DOMAIN Stored[id] => after[id][f] = Stored[id][f]
            /\ \A other \in DOMAIN Stored \ {id} : after[other] = Stored[other]

\* C7 witness: a PATCH answered 200 while the store holds two records that
\* differ in category, stockLevel and vintageStocks.
C7_Witness ==
    /\ response.op = "PATCH"
    /\ response.status = 200
    /\ \E other \in DOMAIN Stored \ {response.id} :
          /\ Stored[other].category # Stored[response.id].category
          /\ Stored[other].stockLevel # Stored[response.id].stockLevel
          /\ Stored[other].vintageStocks # Stored[response.id].vintageStocks

\* C8: PATCH of an id that is not in the store, with any body, answers
\* not-found and leaves the store as it was.
C8_PatchAbsentIsNotFound ==
    [][ \A body \in PatchBodies :
          ( /\ response'.op = "PATCH"
            /\ response'.status # 400
            /\ Target \notin DOMAIN Stored
            /\ PatchWine(IdParam(Target), body) )
          => ( response'.status = 404 /\ Stored' = Stored )
      ]_vars

\* Case-insensitive containment, by positions.
ContainsIgnoringCase(s, q) ==
    \E i \in 0..(Len(s) - Len(q)) :
        \A k \in 1..Len(q) : LowerChar(s[i + k]) = LowerChar(q[k])

\* The producer of a stored catalog entry, as text; absent is the empty text.
ProducerText(e) ==
    IF IsMem THEN e.producer ELSE IF e.producer = NULL THEN <<>> ELSE e.producer[1]

\* C9: a search with the empty query returns no entry, whatever the catalog holds.
C9_EmptyQueryMatchesNone ==
    \A q \in QueryParams :
        LET sent == SearchCatalogOutcome(q)
        IN  sent.q = <<>> => sent.results = {}

\* C10: a search with a non-empty query q returns exactly the entries whose
\* name or producer contains q, ignoring case.
C10_SearchIsSubstringMatch ==
    \A q \in QueryParams :
        LET sent == SearchCatalogOutcome(q)
        IN  sent.q # <<>> =>
                sent.results =
                    { e \in getWineCatalog :
                        \/ ContainsIgnoringCase(e.name, sent.q)
                        \/ ContainsIgnoringCase(ProducerText(e), sent.q) }

\* The entry e holds the values of the row r, with the default category.
HoldsRow(e, r) ==
    /\ e.name = r.name
    /\ e.category = (IF r.category = "" THEN "Other" ELSE r.category)
    /\ ProducerText(e) = r.producer

\* One entry per row: every entry holds a row, and every row is held by as
\* many entries as the times it occurs.
OnePerRow(entries, rows) ==
    /\ \A e \in entries : \E i \in DOMAIN rows : HoldsRow(e, rows[i])
    /\ \A i \in DOMAIN rows :
          Cardinality({e \in entries : HoldsRow(e, rows[i])})
              = Cardinality({j \in DOMAIN rows : rows[j] = rows[i]})

\* A step that settles the promise of a call of loadWineCatalogFromCSV.
LoadSettles(call) ==
    /\ loader'[call].outcome # "none"
    /\ loader[call].pc # "idle" \/ (loads' # loads /\ loader'[call] # loader[call])

\* C11: when a call of loadWineCatalogFromCSV resolves, the catalog holds
\* exactly one entry per row of the file, whatever it held before the call.
C11_RefreshYieldsSourceRows ==
    [][ \A call \in OneCall :
          (LoadSettles(call) /\ loader'[call].outcome = "resolved")
          => OnePerRow(getWineCatalog', csvFile'.rows) ]_vars

\* C12: a call on a missing file, and the call that follows it on the header
\* file the first one wrote, both resolve and leave the catalog empty; the
\* header file is written by the first call only.
C12_MissingSourceTwice ==
    [][ \A call \in OneCall :
          ( /\ LoadSettles(call)
            /\ ~ParserError(call)
            /\ ~InsertFails(call)
            /\ (loader'[call].wrote \/ loader'[call].second) )
          => ( /\ loader'[call].outcome = "resolved"
               /\ getWineCatalog' = {}
               /\ csvFile' = HeaderOnly
               /\ (loader'[call].second => ~loader'[call].wrote) )
      ]_vars

\* The catalog the call in progress leaves when it resolves.
PostRefresh(call) ==
    LET source == loader[call].source
    IN  IF IsMem
        THEN LET first == catalogCurrentId - (Len(source) - Len(loader[call].rest))
             IN  loader[call].before \cup
                    {MemWineEntry(first + i - 1, source[i]) : i \in DOMAIN source}
        ELSE {DbWineEntry(wineCatalogIdSeq + i - 1, source[i]) : i \in DOMAIN source}

\* C13: a reader that lists the catalog while a call of
\* loadWineCatalogFromCSV is in progress is sent either the entries the
\* catalog held when the call started or the entries the call leaves.
C13_RefreshAtomicForReaders ==
    [][ \A call \in OneCall :
          (loader[call].pc # "idle" /\ SearchCatalog(None))
          => search'.results \in {loader[call].before, PostRefresh(call)} ]_vars

\* C14: when the parser fails, the call rejects and the catalog holds the
\* entries it held when the call started.
C14_ParseErrorKeepsCatalog ==
    [][ \A call \in OneCall :
          ParserError(call)
          => ( /\ loader'[call].outcome = "rejected"
               /\ getWineCatalog' = loader[call].before ) ]_vars

\* C15: when the bulk insert fails after the delete, the catalog holds the
\* entries it held when the call started.
C15_DeleteInsertOneUnit ==
    [][ \A call \in OneCall :
          InsertFails(call) => getWineCatalog' = loader[call].before ]_vars

\* C16: no request changes the userId of a stored record: as long as a
\* record is stored, its userId is the one it was created with.
C16_OwnerNeverChanges ==
    [][ \A id \in DOMAIN Stored \cap DOMAIN Stored' :
          Stored'[id].userId = Stored[id].userId ]_vars

\* C17: GET /api/wines and GET /api/wines/category/:category by a signed-in
\* user send exactly the stored records of that user (of that category).
C17_ListOnlyOwn ==
    \A caller \in Owners :
        /\ GetWinesOutcome(Some(caller))
              = {Stored[id] : id \in {i \in DOMAIN Stored : Stored[i].userId = caller}}
        /\ \A category \in AnyCategories :
              GetWinesByCategoryOutcome(category, Some(caller))
                = {Stored[id] : id \in {i \in DOMAIN Stored :
                                          /\ Stored[i].userId = caller
                                          /\ Stored[i].category = category}}

\* The request is answered with a validation error and the store is as it was.
Rejected == response'.status = 400 /\ Stored' = Stored

\* Every POST, and every PATCH of a stored record, whose body is Bad is rejected.
RejectsEvery(Bad(_)) ==
    /\ \A caller \in Owners, body \in AnyPostBodies :
          (Bad(body) /\ PostWine(caller, body)) => Rejected
    /\ \A id \in DOMAIN Stored, body \in AnyPatchBodies :
          (Bad(body) /\ PatchWine(IdParam(id), body)) => Rejected

BadCategory(body) == "category" \in DOMAIN body /\ body.category \notin WineCategory

\* C18: a create or update whose category is not a value of WineCategory is
\* answered with a validation error and leaves the store as it was.
C18_CategoryEnumerated == [][RejectsEvery(BadCategory)]_vars

FutureVintage(body) ==
    /\ "vintageStocks" \in DOMAIN body
    /\ \E i \in DOMAIN body.vintageStocks : body.vintageStocks[i].vintage > CurrentYear

\* C19: a create or update whose vintageStocks holds a vintage later than the
\* current year is answered with a validation error and leaves the store as
\* it was.
C19_FutureVintageRejected == [][RejectsEvery(FutureVintage)]_vars

NegativeStock(body) ==
    \/ ("stockLevel" \in DOMAIN body /\ body.stockLevel < 0)
    \/ /\ "vintageStocks" \in DOMAIN body
       /\ \E i \in DOMAIN body.vintageStocks : body.vintageStocks[i].stock < 0

\* C20: every stored record has a stockLevel and vintage stocks that are not
\* negative, and a create or update carrying a negative stockLevel or vintage
\* stock is answered with a validation error and leaves the store as it was.
C20_StockNeverNegative ==
    [][ /\ RejectsEvery(NegativeStock)
        /\ \A id \in DOMAIN Stored' :
              /\ Stored'[id].stockLevel >= 0
              /\ \A i \in DOMAIN Stored'[id].vintageStocks :
                    Stored'[id].vintageStocks[i].stock >= 0
      ]_vars

\* C21: a create returns an id that no create has returned before and that
\* no stored record has, whatever was deleted in between; and no request
\* changes the id of a record that stays stored.
C21_IdsUniqueAndImmutable ==
    [][ /\ (response'.op = "POST" /\ response'.status = 201) =>
             /\ response'.id \notin issued
             /\ response'.id \notin DOMAIN Stored
             /\ response'.body[1].id = response'.id
             /\ Stored' = Put(Stored, response'.id, response'.body[1])
        /\ \A id \in DOMAIN Stored \cap DOMAIN Stored' :
             Stored[id].id = id /\ Stored'[id].id = id
      ]_vars

\* C21 witness: a create answered 201 after an earlier created record was
\* deleted.
C21_Witness ==
    /\ response.op = "POST"
    /\ response.status = 201
    /\ response.id \in DOMAIN Stored
    /\ \E id \in issued : id \notin DOMAIN Stored

\* C22: of two PATCH requests for the same stored id that the store executes
\* one right after the other, both are answered 200 and the record stored in
\* the end is the second patch applied to the result of the first.
C22_ConcurrentUpdatesBothApply ==
    [][ \A body \in PatchBodies :
          ( /\ response.op = "PATCH"
            /\ response.status # 400
            /\ response.id \in DOMAIN Stored
            /\ PatchWine(IdParam(response.id), body) )
          => ( /\ response.status = 200
               /\ response'.status = 200
               /\ Stored' = Put(Stored, response.id,
                                Spread(Stored[response.id], ParsedData(body))) )
      ]_vars

\* C23: for every stored record of a category that is not vintage-tracked the
\* total stock of WineDetail is its stockLevel, and the bottle count of
\* WineInventory for such a category is the sum of the stockLevels of its
\* records, whatever their vintageStocks hold.
C23_TotalsFromStockLevel ==
    /\ \A id \in DOMAIN Stored :
          ~Tracked(Stored[id]) => TotalStock(Stored[id]) = StockLevelOrZero(Stored[id])
    /\ \A category \in Categories \ VintageTracked :
          BottlesPerCategory(Stored, category)
              = ReduceWines([id \in DOMAIN Stored |-> StockLevelOrZero(Stored[id])],
                            WinesByCategory(Stored, category))

\* C24: every POST by a signed-in user with a body that has a name and a
\* category, with or without a userId, is answered 201 and stores the record
\* sent back, whose userId is the session user.
C24_CreateAcceptedForCaller ==
    [][ \A caller \in Users, body \in PostBodies :
          PostWine(caller, body)
          => ( /\ response'.status = 201
               /\ response'.body[1].userId = caller
               /\ response'.id \in DOMAIN Stored'
               /\ Stored'[response'.id] = response'.body[1] )
      ]_vars

\* C25: a PATCH or DELETE sent by anyone but the signed-in owner of the
\* record leaves the record stored as it was.
C25_OnlyOwnerChanges ==
    [][ \A caller \in Opt(Owners), id \in DOMAIN Stored :
          caller # Some(Stored[id].userId) =>
            /\ \A body \in AnyPatchBodies :
                  PatchWineBy(caller, IdParam(id), body)
                  => (id \in DOMAIN Stored' /\ Stored'[id] = Stored[id])
            /\ DeleteWineBy(caller, IdParam(id))
                  => (id \in DOMAIN Stored' /\ Stored'[id] = Stored[id])
      ]_vars

\* The years of a vintageStocks list are pairwise distinct.
DistinctYears(vintageStocks) ==
    \A i, j \in DOMAIN vintageStocks :
        i # j => vintageStocks[i].vintage # vintageStocks[j].vintage

\* The entries of a list for one year.
EntriesOf(vintageStocks, year) ==
    {i \in DOMAIN vintageStocks : vintageStocks[i].vintage = year}

\* C26: the list the VintageManager is given has pairwise distinct years, the
\* list each of its handlers passes to onChange has pairwise distinct years,
\* and Add Vintage with s bottles for a year listed with t bottles passes a
\* list with one entry for that year, of t + s bottles.
C26_VintageYearsUnique ==
    [][ /\ DistinctYears(form.vintageStocks)
        /\ onChange' # onChange => DistinctYears(onChange'.vintageStocks)
        /\ HandleAddVintage =>
              \A i \in EntriesOf(form.vintageStocks, vintageInput) :
                 \E j \in DOMAIN onChange'.vintageStocks :
                    /\ EntriesOf(onChange'.vintageStocks, vintageInput) = {j}
                    /\ onChange'.vintageStocks[j].stock
                          = form.vintageStocks[i].stock + stockInput
                    /\ Len(onChange'.vintageStocks) = Len(form.vintageStocks)
      ]_vars

\* C26 witness: Add Vintage was pressed for a year that was listed, among two
\* listed years.
C26_Witness ==
    /\ onChange.handler = "handleAddVintage"
    /\ onChange.exists
    /\ Len(onChange.vintageStocks) = 2

\* C27: every entry of a list the VintageManager passes to onChange has a
\* stock of at least 1.
C27_EmittedStockPositive ==
    \A i \in DOMAIN onChange.vintageStocks : onChange.vintageStocks[i].stock >= 1

C29_ConcurrentRefreshNoDuplicates ==
    ( /\ \A call \in Calls : loader[call].pc = "idle" /\ loader[call].outcome = "resolved"
      /\ \E call \in Calls : loader[call].overlap )
    => OnePerRow(getWineCatalog, csvFile.rows)

\* C30: after the same calls on a MemStorage and on a DatabaseStorage, the
\* last call has returned the same in both and the two hold the same wines.
C30_StoragesInterchangeable ==
    /\ returned.mem.threw = returned.db.threw
    /\ returned.mem.value = returned.db.value
    /\ wineStore = winesTable

====
